---- MODULE Spec2Model ----
(***************************************************************************)
(* A model of the two custom elements of magic-spells/bottom-sheet:        *)
(*                                                                         *)
(*   DialogPanel  the four-state show/hide lifecycle around a native       *)
(*                <dialog> (dialog-panel.esm.js, bundled in                *)
(*                src/rollup.config.mjs)                                   *)
(*   BottomSheet  the standalone sheet with its touch-drag gesture         *)
(*                tracker (src/unnamed/part_001 and src/dist/bottom-sheet.js)*)
(*                                                                         *)
(* Every event handler of the source is one action.  The helpers of the    *)
(* source (#setState, #emit, #waitForTransition, show, hide, ...) are      *)
(* operators on a record holding the element's fields, so a handler that   *)
(* calls several of them is still a single step.                           *)
(***************************************************************************)
EXTENDS Integers, Sequences, FiniteSets, TLC

\* ------------------------------------------------------------------------
\* Bounds of the model
\* ------------------------------------------------------------------------

\* Largest number of fallback timers that may be outstanding at once; show()
\* is not called by the environment while fewer than two slots are free.
MaxTimers == 3

\* Saturation value of the per-cycle notification counters.
MaxCount == 2

\* Largest number of #waitForTransition closures that are still referenced
\* (by a timer or as a transitionend listener) when show() opens the panel.
MaxWaiters == 3

\* Largest number of fingers that are down on the sheet at once.
MaxTouches == 2

\* Largest number of nested attributeChangedCallback calls that are followed
\* when the max-display-width attribute is written.
MaxReflections == 5

\* Largest upward drag distance, in pixels, of the runs that sweep the
\* resistance curve.
MaxUp == 40

\* Largest downward drag distance, in pixels, of the runs that sweep the
\* staged resistance curve.
MaxDown == 112

\* ------------------------------------------------------------------------
\* Values
\* ------------------------------------------------------------------------

Null == "null"

\* Elements that host code passes as a trigger element: the button that opens
\* the panel to show(), the button that closes it to hide(), or none.
ShowTriggers == {"btnOpen", Null}

HideTriggers == {"btnClose", Null}

\* Targets of a click inside <dialog-panel>: a child of the close button
\* (which carries data-action-hide-dialog) or the content.
ClickTargets == {"iconInBtnClose", "content"}

\* Targets and properties of a transitionend event reaching the <dialog>.
TransitionTargets == {"dialog", "child"}

TransitionProps == {"transform", "opacity"}

\* What a listener the host registered for the hidden notification does: it
\* calls nothing of the panel, or it calls show(arg) to open the panel again.
NoListener == [calls |-> "none", el |-> Null]

ShowAgain(el) == [calls |-> "show", el |-> el]

\* e.target.closest('[data-action-hide-dialog]')
ClosestHideAction(target) ==
  IF target \in {"btnClose", "iconInBtnClose"} THEN "btnClose" ELSE Null

\* triggerEl?.dataset?.result ?? null
DatasetResult(el) ==
  IF el = "btnClose" THEN "confirm" ELSE Null

VARIABLES
  \* ---- DialogPanel ----
  state,            \* #state
  triggerElement,   \* #triggerElement
  result,           \* #result
  dialog,           \* #dialog is non-null (an inner <dialog> was found)
  dialogOpen,       \* the native <dialog> has its open attribute
  modal,            \* the native <dialog> is modal (in the top layer)
  isConnected,      \* <dialog-panel> is in the document
  bound,            \* #bindEvents has attached the click/cancel handlers
  pendingRAF,       \* stage of the double requestAnimationFrame of show()
  pendingTimeout,   \* #pendingTimeout: id of a fallback timer, 0 for null
  waiters,          \* closures created by #waitForTransition, in listener order
  timers,           \* outstanding setTimeout callbacks, oldest first
  dpOp,             \* the handler that ran last, its inputs and return value
  emitted,          \* notifications dispatched by the handler that ran last
  native,           \* native calls (showModal, close, focus) made by it
  shownCount,       \* shown notifications since the last accepted show()
  hiddenCount,      \* hidden notifications since the last accepted hide()
  onHidden,         \* what the host's listener of the hidden notification calls
  \* ---- BottomSheet ----
  variant,          \* which build of BottomSheet is running
  roles,            \* which of header, overlay and content the markup has
  connected,        \* the element is in the document
  uiBound,          \* bindUI's listeners (touch, click, transitionend, keydown)
  resizeBound,      \* the window resize listener is registered
  inThrottle,       \* inThrottle of the throttled resize handler
  ariaHidden,       \* aria-hidden is 'true'
  inert,            \* the inert attribute is present
  transitioning,    \* the panel carries the class 'transitioning'
  transform,        \* panel.style.transform
  bodyLocked,       \* the body carries the scroll-lock styles
  scrollPosition,   \* #scrollPosition
  pageYOffset,      \* window.pageYOffset
  innerWidth,       \* window.innerWidth
  maxDisplayWidth,  \* #maxDisplayWidth
  widthAttr,        \* the max-display-width attribute, Null when absent
  drag,             \* the drag object
  touches,          \* touch points that started on the sheet and are still down
  session,          \* zone and content scroll offset of the latest touch-start
  bsOp,             \* the handler that ran last and what it was given
  bsCalls,          \* methods the handler that ran last invoked, in order
  bsEmitted,        \* notifications dispatched by the handler that ran last
  bsDragSeen,       \* the drag object as each show()/hide() call of it found it
  defaultPrevented, \* the handler that ran last called e.preventDefault()
  propagationStopped, \* the handler that ran last called e.stopPropagation()
  bsThrew           \* the handler that ran last raised a TypeError

dpVars == <<state, triggerElement, result, dialog, dialogOpen, modal,
            isConnected, bound,
            pendingRAF, pendingTimeout, waiters, timers, dpOp, emitted,
            native, shownCount, hiddenCount, onHidden>>

bsVars == <<variant, roles, bsThrew, connected, uiBound, resizeBound, inThrottle, ariaHidden,
            inert, transitioning, transform, bodyLocked, scrollPosition,
            pageYOffset, innerWidth, maxDisplayWidth, widthAttr, drag, touches,
            session,
            bsOp, bsCalls, bsEmitted, bsDragSeen, defaultPrevented,
            propagationStopped>>

vars == <<dpVars, bsVars>>

\* ------------------------------------------------------------------------
\* DialogPanel: helpers
\* ------------------------------------------------------------------------

Range(s) == {s[i] : i \in 1..Len(s)}

SelectSeqNot(s, x) == SelectSeq(s, LAMBDA e : e # x)

Inc(n) == IF n < MaxCount THEN n + 1 ELSE MaxCount

\* The fields of the element as a record the helpers transform; the logs of
\* the step start empty.
DPFields ==
  [state |-> state, triggerElement |-> triggerElement, result |-> result,
   dialog |-> dialog, dialogOpen |-> dialogOpen, modal |-> modal,
   isConnected |-> isConnected, bound |-> bound,
   pendingRAF |-> pendingRAF, pendingTimeout |-> pendingTimeout,
   waiters |-> waiters, timers |-> timers,
   emitted |-> <<>>, native |-> <<>>,
   shownCount |-> shownCount, hiddenCount |-> hiddenCount,
   onHidden |-> onHidden,
   ret |-> "none"]

\* #setState(newState)
setState(r, newState) == [r EXCEPT !.state = newState]

\* #emit(name, options): detail is {triggerElement, result, state, ...detail}
emit(r, name, detail) ==
  [r EXCEPT !.emitted = Append(@,
     [name |-> name,
      triggerElement |-> IF "triggerElement" \in DOMAIN detail
                         THEN detail.triggerElement ELSE r.triggerElement,
      result |-> IF "result" \in DOMAIN detail
                 THEN detail.result ELSE r.result,
      state |-> r.state])]

\* dispatchEvent() returns false only when a cancelable event was canceled
dispatchEvent(cancelable, prevented) == ~(cancelable /\ prevented)

\* Ids of the timers and closures that are still referenced somewhere.
UsedIds(r) ==
  {r.waiters[i].id : i \in 1..Len(r.waiters)} \cup Range(r.timers)
    \cup {r.pendingTimeout}

FreshId(r) == CHOOSE i \in 1..(MaxTimers + 3) :
                /\ i \notin UsedIds(r)
                /\ \A j \in 1..(i - 1) : j \in UsedIds(r)

\* #waitForTransition(callback): registers the transitionend listener and the
\* fallback timer, and overwrites #pendingTimeout with the new timer's id.
\* cb names the callback, trig is the triggerEl its closure captured.
waitForTransition(r, cb, trig) ==
  LET id == FreshId(r) IN
  [r EXCEPT !.waiters = Append(@, [id |-> id, cb |-> cb, trig |-> trig,
                                   called |-> FALSE]),
            !.timers = Append(@, id),
            !.pendingTimeout = id]

\* _.#dialog.showModal() throws a TypeError when #dialog is null and an
\* InvalidStateError when the dialog is open without being modal or is not in
\* the document.
showModalThrows(r) ==
  ~r.dialog \/ (r.dialogOpen /\ ~r.modal) \/ ~r.isConnected

\* _.#dialog.showModal() that returns: nothing happens to a modal dialog
showModal(r) ==
  [r EXCEPT !.dialogOpen = TRUE, !.modal = TRUE,
            !.native = Append(@, "showModal")]

\* show(triggerEl) that forgets the guard on 'hiding'
showNoHidingGuard(r, triggerEl, prevented) ==
  IF r.state \in {"showing", "shown"} THEN [r EXCEPT !.ret = "true"]
  ELSE
    LET r1 == [r EXCEPT !.triggerElement = triggerEl]
        r2 == emit(r1, "beforeShow", [x \in {} |-> Null])
    IN IF ~dispatchEvent(TRUE, prevented) THEN [r2 EXCEPT !.ret = "false"]
       ELSE
         LET r3 == setState(r2, "showing") IN
         IF showModalThrows(r3) THEN [r3 EXCEPT !.ret = "throw"]
         ELSE [showModal(r3) EXCEPT !.pendingRAF = "first",
                                    !.shownCount = 0,
                                    !.ret = "true"]

\* show(triggerEl) that ignores the result of the beforeShow dispatch
showIgnoresCancel(r, triggerEl, prevented) ==
  IF r.state \in {"showing", "shown"} THEN [r EXCEPT !.ret = "true"]
  ELSE IF r.state = "hiding" THEN [r EXCEPT !.ret = "false"]
  ELSE
    LET r1 == [r EXCEPT !.triggerElement = triggerEl]
        r2 == emit(r1, "beforeShow", [x \in {} |-> Null])
        r3 == setState(r2, "showing")
    IN IF showModalThrows(r3) THEN [r3 EXCEPT !.ret = "throw"]
       ELSE [showModal(r3) EXCEPT !.pendingRAF = "first",
                                  !.shownCount = 0,
                                  !.ret = "true"]

\* show(triggerEl) that stores the trigger element before its state guards
showStoresTriggerFirst(r, triggerEl, prevented) ==
  LET r1 == [r EXCEPT !.triggerElement = triggerEl] IN
  IF r1.state \in {"showing", "shown"} THEN [r1 EXCEPT !.ret = "true"]
  ELSE IF r1.state = "hiding" THEN [r1 EXCEPT !.ret = "false"]
  ELSE
    LET r2 == emit(r1, "beforeShow", [x \in {} |-> Null])
    IN IF ~dispatchEvent(TRUE, prevented) THEN [r2 EXCEPT !.ret = "false"]
       ELSE
         LET r3 == setState(r2, "showing") IN
         IF showModalThrows(r3) THEN [r3 EXCEPT !.ret = "throw"]
         ELSE [showModal(r3) EXCEPT !.pendingRAF = "first",
                                    !.shownCount = 0,
                                    !.ret = "true"]

\* show(triggerEl = null); prevented: a beforeShow listener calls
\* preventDefault().  An exception of showModal() leaves show() after the
\* state was set to 'showing'.
show(r, triggerEl, prevented) ==
  IF r.state \in {"showing", "shown"} THEN [r EXCEPT !.ret = "true"]
  ELSE IF r.state = "hiding" THEN [r EXCEPT !.ret = "false"]
  ELSE
    LET r1 == [r EXCEPT !.triggerElement = triggerEl]
        r2 == emit(r1, "beforeShow", [x \in {} |-> Null])
    IN IF ~dispatchEvent(TRUE, prevented) THEN [r2 EXCEPT !.ret = "false"]
       ELSE
         LET r3 == setState(r2, "showing") IN
         IF showModalThrows(r3) THEN [r3 EXCEPT !.ret = "throw"]
         ELSE [showModal(r3) EXCEPT !.pendingRAF = "first",
                                    !.shownCount = 0,
                                    !.ret = "true"]

\* callback of show(): () => _.#emit('shown')
shownCallback(r) ==
  [emit(r, "shown", [x \in {} |-> Null]) EXCEPT !.shownCount = Inc(@)]

\* The listeners of a notification run inside dispatchEvent(), before #emit
\* returns; an exception of a listener does not leave dispatchEvent().
runListeners(r, name) ==
  IF name = "hidden" /\ r.onHidden.calls = "show"
  THEN [show(r, r.onHidden.el, FALSE) EXCEPT !.ret = r.ret]
  ELSE r

\* callback of hide(): close the dialog, set 'hidden', emit, focus, clean up
hiddenCallback(r, trig) ==
  LET r1 == [r EXCEPT !.dialogOpen = FALSE, !.modal = FALSE,
                      !.native = Append(@, "close")]
      r2 == setState(r1, "hidden")
      r3 == [emit(r2, "hidden", [result |-> r2.result, triggerElement |-> trig])
               EXCEPT !.hiddenCount = Inc(@)]
      r3b == runListeners(r3, "hidden")
      r4 == IF r3b.triggerElement # Null
            THEN [r3b EXCEPT !.native = Append(@, "focus")]
            ELSE r3b
  IN [r4 EXCEPT !.triggerElement = Null, !.result = Null]

runCallback(r, w) ==
  IF w.cb = "shown" THEN shownCallback(r) ELSE hiddenCallback(r, w.trig)

WaiterIndex(r, id) == CHOOSE i \in 1..Len(r.waiters) : r.waiters[i].id = id

HasWaiter(r, id) == \E i \in 1..Len(r.waiters) : r.waiters[i].id = id

\* done() without the `called` latch: a plausible slip
doneNoLatch(r, id) ==
  IF ~HasWaiter(r, id) THEN r
  ELSE
    LET i == WaiterIndex(r, id)
        w == r.waiters[i]
        r1 == [r EXCEPT !.waiters[i].called = TRUE]
        r2 == IF r1.pendingTimeout # 0
              THEN [r1 EXCEPT !.timers = SelectSeqNot(@, r1.pendingTimeout),
                              !.pendingTimeout = 0]
              ELSE r1
    IN runCallback(r2, w)

\* done() of #waitForTransition, for the closure with the given id
done(r, id) ==
  IF ~HasWaiter(r, id) THEN r
  ELSE
    LET i == WaiterIndex(r, id)
        w == r.waiters[i]
    IN IF w.called THEN r
       ELSE
         LET r1 == [r EXCEPT !.waiters[i].called = TRUE]
             \* clearTimeout(#pendingTimeout): whichever timer the field names
             r2 == IF r1.pendingTimeout # 0
                   THEN [r1 EXCEPT !.timers = SelectSeqNot(@, r1.pendingTimeout),
                                   !.pendingTimeout = 0]
                   ELSE r1
         IN runCallback(r2, w)

\* onTransitionEnd(e) of one closure: if (e.target === _.#dialog) done()
onTransitionEnd(r, id, target) ==
  IF target = "dialog" THEN done(r, id) ELSE r

\* Dispatch of one transitionend event to the listeners registered when the
\* dispatch starts, in registration order.
RECURSIVE dispatchTransitionEnd(_, _, _)
dispatchTransitionEnd(r, ids, target) ==
  IF ids = <<>> THEN r
  ELSE dispatchTransitionEnd(onTransitionEnd(r, Head(ids), target),
                             Tail(ids), target)

\* Ids of the closures whose transitionend listener is still registered.
ListenerIds(r) ==
  LET live == SelectSeq(r.waiters, LAMBDA w : ~w.called)
  IN [i \in 1..Len(live) |-> live[i].id]

\* hide(triggerEl) that forgets the guard on 'showing'
hideNoShowingGuard(r, triggerEl, prevented) ==
  IF r.state \in {"hiding", "hidden"} THEN [r EXCEPT !.ret = "true"]
  ELSE
    LET r1 == [r EXCEPT !.result = DatasetResult(triggerEl)]
        r2 == emit(r1, "beforeHide",
                   [result |-> r1.result, triggerElement |-> triggerEl])
    IN IF ~dispatchEvent(TRUE, prevented) THEN [r2 EXCEPT !.ret = "false"]
       ELSE
         LET r3 == [setState(r2, "hiding") EXCEPT !.hiddenCount = 0]
         IN [waitForTransition(r3, "hidden", triggerEl) EXCEPT !.ret = "true"]

\* hide(triggerEl = null); prevented: a beforeHide listener calls
\* preventDefault()
hide(r, triggerEl, prevented) ==
  IF r.state \in {"hiding", "hidden"} THEN [r EXCEPT !.ret = "true"]
  ELSE IF r.state = "showing" THEN [r EXCEPT !.ret = "false"]
  ELSE
    LET r1 == [r EXCEPT !.result = DatasetResult(triggerEl)]
        r2 == emit(r1, "beforeHide",
                   [result |-> r1.result, triggerElement |-> triggerEl])
    IN IF ~dispatchEvent(TRUE, prevented) THEN [r2 EXCEPT !.ret = "false"]
       ELSE
         LET r3 == [setState(r2, "hiding") EXCEPT !.hiddenCount = 0]
         IN [waitForTransition(r3, "hidden", triggerEl) EXCEPT !.ret = "true"]

\* Closures that were called and whose timer is gone are unreachable.
Collect(ws, ts) ==
  SelectSeq(ws, LAMBDA w : ~w.called \/ w.id \in Range(ts))

\* The step of a handler: the fields after it, and what it was.  prevented
\* records a listener that canceled an event the handler dispatched.
DPCommit(r, name, arg, prevented) ==
  /\ state' = r.state
  /\ triggerElement' = r.triggerElement
  /\ result' = r.result
  /\ dialog' = r.dialog
  /\ dialogOpen' = r.dialogOpen
  /\ modal' = r.modal
  /\ isConnected' = r.isConnected
  /\ bound' = r.bound
  /\ pendingRAF' = r.pendingRAF
  /\ pendingTimeout' = r.pendingTimeout
  /\ waiters' = Collect(r.waiters, r.timers)
  /\ timers' = r.timers
  /\ emitted' = r.emitted
  /\ native' = r.native
  /\ shownCount' = r.shownCount
  /\ hiddenCount' = r.hiddenCount
  /\ onHidden' = r.onHidden
  /\ dpOp' = [name |-> name, arg |-> arg,
              prevented |-> prevented /\ r.emitted # <<>>, ret |-> r.ret]
  /\ UNCHANGED bsVars

\* ------------------------------------------------------------------------
\* DialogPanel: actions
\* ------------------------------------------------------------------------

\* Host code calls show(triggerEl).
Show(triggerEl, prevented) ==
  /\ state = "hidden" => Len(timers) + 2 <= MaxTimers
  /\ state = "hidden" => Len(waiters) + 2 <= MaxWaiters
  /\ DPCommit(show(DPFields, triggerEl, prevented), "show", triggerEl,
              prevented)

\* Host code calls hide(triggerEl).
Hide(triggerEl, prevented) ==
  DPCommit(hide(DPFields, triggerEl, prevented), "hide", triggerEl, prevented)

\* #handlers.click: a click inside <dialog-panel>
Click(target, prevented) ==
  /\ bound
  /\ LET trigger == ClosestHideAction(target) IN
     IF trigger # Null
     THEN DPCommit(hide(DPFields, trigger, prevented), "click", target,
                   prevented)
     ELSE DPCommit(DPFields, "click", target, prevented)

\* #handlers.dialogClick: a click on the <dialog>, inside or outside its box
DialogClick(clickedOutside, prevented) ==
  /\ bound
  /\ IF clickedOutside
     THEN DPCommit(hide(DPFields, Null, prevented), "dialogClick", "outside",
                   prevented)
     ELSE DPCommit(DPFields, "dialogClick", "inside", prevented)

\* DialogBackdrop's click handler: _.#panel.hide()
BackdropClick(prevented) ==
  /\ bound
  /\ DPCommit(hide(DPFields, Null, prevented), "backdropClick", Null,
              prevented)

\* #handlers.cancel: the native cancel (Escape) is prevented and turned into
\* hide(), so the dialog is not closed by the browser.
Cancel(prevented) ==
  /\ bound
  /\ DPCommit(hide(DPFields, Null, prevented), "cancel", Null, prevented)

\* The browser runs the pending animation-frame callback of show().
AnimationFrame ==
  /\ pendingRAF # "none"
  /\ IF pendingRAF = "first"
     THEN DPCommit([DPFields EXCEPT !.pendingRAF = "second"], "raf", "first",
                   FALSE)
     ELSE DPCommit(
            waitForTransition(
              setState([DPFields EXCEPT !.pendingRAF = "none"], "shown"),
              "shown", Null),
            "raf", "second", FALSE)

\* A listener of the hidden notification opens the panel again only while the
\* timers and closures this leaves fit the bounds, as show() called by the
\* host does.
RoomToShowAgain(r) ==
  state = "hiding" /\ r.state = "showing"
    => /\ Len(r.timers) + 2 <= MaxTimers
       /\ Len(Collect(r.waiters, r.timers)) + 2 <= MaxWaiters

\* A transitionend event reaches the <dialog> (its own or a bubbling one).
TransitionEnd(target, prop) ==
  /\ dialog /\ isConnected
  /\ RoomToShowAgain(dispatchTransitionEnd(DPFields, ListenerIds(DPFields),
                                           target))
  /\ DPCommit(dispatchTransitionEnd(DPFields, ListenerIds(DPFields), target),
              "transitionend", <<target, prop>>, FALSE)

\* The oldest outstanding fallback timer fires.  All of them are set with the
\* same delay, so they fire in the order they were set.
TimerFire ==
  /\ timers # <<>>
  /\ LET id == Head(timers) IN
     /\ RoomToShowAgain(done([DPFields EXCEPT !.timers = Tail(@)], id))
     /\ DPCommit(done([DPFields EXCEPT !.timers = Tail(@)], id),
                 "timeout", id, FALSE)

\* disconnectedCallback() that does not cancel the pending animation frame
DialogPanel_disconnectedCallbackKeepsFrame(r) ==
  LET r1 == [r EXCEPT !.isConnected = FALSE, !.modal = FALSE]
      r2 == IF r1.pendingTimeout # 0
            THEN [r1 EXCEPT !.timers = SelectSeqNot(@, r1.pendingTimeout),
                            !.pendingTimeout = 0]
            ELSE r1
  IN [r2 EXCEPT !.bound = FALSE]

\* disconnectedCallback(): the pending frame and the timer #pendingTimeout
\* names are canceled and the click and cancel listeners removed.  The
\* browser takes a dialog that leaves the document out of the top layer and
\* leaves its open attribute alone.
DialogPanel_disconnectedCallback(r) ==
  LET r1 == [r EXCEPT !.isConnected = FALSE, !.modal = FALSE,
                      !.pendingRAF = "none"]
      r2 == IF r1.pendingTimeout # 0
            THEN [r1 EXCEPT !.timers = SelectSeqNot(@, r1.pendingTimeout),
                            !.pendingTimeout = 0]
            ELSE r1
  IN [r2 EXCEPT !.bound = FALSE]

\* connectedCallback(): without an inner <dialog> it warns and returns
DialogPanel_connectedCallback(r) ==
  LET r1 == [r EXCEPT !.isConnected = TRUE] IN
  IF ~r1.dialog THEN r1
  ELSE [setState(r1, "hidden") EXCEPT !.bound = TRUE]

\* <dialog-panel> is removed from the document.
DPDisconnected ==
  /\ isConnected
  /\ DPCommit(DialogPanel_disconnectedCallback(DPFields),
              "disconnectedCallback", Null, FALSE)

\* <dialog-panel> is inserted into the document again.
DPConnected ==
  /\ ~isConnected
  /\ DPCommit(DialogPanel_connectedCallback(DPFields),
              "connectedCallback", Null, FALSE)

\* Host code registers a listener of the hidden notification that opens the
\* panel again: addEventListener('hidden', () => panel.show(el)).
AddHiddenListener(el) ==
  /\ onHidden = NoListener
  /\ DPCommit([DPFields EXCEPT !.onHidden = ShowAgain(el)],
              "addEventListener", el, FALSE)

InitDP ==
  /\ state = "hidden"
  /\ triggerElement = Null
  /\ result = Null
  /\ dialog = TRUE
  /\ dialogOpen = FALSE
  /\ modal = FALSE
  /\ isConnected = TRUE
  /\ bound = TRUE
  /\ pendingRAF = "none"
  /\ pendingTimeout = 0
  /\ waiters = <<>>
  /\ timers = <<>>
  /\ dpOp = [name |-> "connectedCallback", arg |-> Null, prevented |-> FALSE,
             ret |-> "none"]
  /\ emitted = <<>>
  /\ native = <<>>
  /\ shownCount = 0
  /\ hiddenCount = 0
  /\ onHidden = NoListener

NextDP ==
  \/ \E t \in ShowTriggers, p \in BOOLEAN : Show(t, p)
  \/ \E t \in HideTriggers, p \in BOOLEAN : Hide(t, p)
  \/ \E x \in ClickTargets, p \in BOOLEAN : Click(x, p)
  \/ \E o \in BOOLEAN, p \in BOOLEAN : DialogClick(o, p)
  \/ \E p \in BOOLEAN : BackdropClick(p)
  \/ \E p \in BOOLEAN : Cancel(p)
  \/ AnimationFrame
  \/ \E x \in TransitionTargets, q \in TransitionProps : TransitionEnd(x, q)
  \/ TimerFire

\* A <dialog-panel> that was created in the document, with or without an
\* inner <dialog>: its connectedCallback has run.
InitDPAnyMarkup ==
  /\ state = "hidden"
  /\ triggerElement = Null
  /\ result = Null
  /\ dialog \in BOOLEAN
  /\ dialogOpen = FALSE
  /\ modal = FALSE
  /\ isConnected = TRUE
  /\ bound = dialog
  /\ pendingRAF = "none"
  /\ pendingTimeout = 0
  /\ waiters = <<>>
  /\ timers = <<>>
  /\ dpOp = [name |-> "connectedCallback", arg |-> Null, prevented |-> FALSE,
             ret |-> "none"]
  /\ emitted = <<>>
  /\ native = <<>>
  /\ shownCount = 0
  /\ hiddenCount = 0
  /\ onHidden = NoListener

\* The panel's handlers together with its removal from and insertion into
\* the document.
NextDPAttach ==
  \/ NextDP
  \/ DPDisconnected
  \/ DPConnected

\* ------------------------------------------------------------------------
\* BottomSheet: values
\* ------------------------------------------------------------------------

\* #dragThreshold: distance in pixels needed to dismiss by dragging
DragThreshold == 100

\* #overscrollResistance = 0.1, in tenths
OverscrollResistanceTenths == 1

\* #maxDisplayWidth = Infinity: larger than every viewport width
Infinity == 1000000

\* Stands for 10^21, the smallest number that String() writes with an
\* exponent; only its order among the widths matters.
Sextillion == 999999

\* Values written to the max-display-width attribute.
AttrValues == {"none", "abc", "600", "600px", "1000000000000000000000"}

\* parseInt(string): the integer a leading run of digits denotes, NaN without
\* such a run
parseInt(str) ==
  CASE str = "600" -> [isNaN |-> FALSE, n |-> 600]
    [] str = "600px" -> [isNaN |-> FALSE, n |-> 600]
    [] str = "1000000000000000000000" -> [isNaN |-> FALSE, n |-> Sextillion]
    [] str = "1e+21" -> [isNaN |-> FALSE, n |-> 1]
    [] str = "1" -> [isNaN |-> FALSE, n |-> 1]
    [] OTHER -> [isNaN |-> TRUE, n |-> 0]

\* String(number), as setAttribute(name, number) converts its value
NumberToString(n) ==
  CASE n = 600 -> "600"
    [] n = 1 -> "1"
    [] n = Sextillion -> "1e+21"

\* Offsets of the inline transform are kept in thousandths of a pixel.
Scale == 1000

\* The builds of BottomSheet: "zoned" is the build of part_001 whose move
\* handler looks at the zone the touch started in, "dist" is
\* dist/bottom-sheet.js, whose move handler does not.
Variants == {"zoned", "dist"}

\* The build of part_001 with staged downward resistance has handlers of its
\* own; a sheet of it has variant "staged".
StagedThreshold == 100

\* resistanceFactor of its upward (0.1) and of its downward (0.3) formula, in
\* tenths
StagedUpTenths == 1

StagedDownTenths == 3

\* Elements the touch handlers are bound to.
Zones == {"header", "overlay", "content"}

\* panelContent.scrollTop at a touch-start
ScrollTops == {0, 30}

\* screenY of a touch-start and of a touch-move: the moves reach the deltas
\* -100, 0, 60, 100 (the threshold) and 101.
StartYs == {500}

MoveYs == {400, 500, 560, 600, 601}

\* window.innerWidth, the max-display-width settings and window.pageYOffset
Widths == {500, 700}

MaxDisplayWidths == {600, Infinity}

PageOffsets == {0, 300}

Keys == {"Escape", "Enter"}

\* panel.style.transform: null, or translate3d(0,<y>px,0)
NoTransform == [set |-> FALSE, y |-> 0]

Translate(y) == [set |-> TRUE, y |-> y]

\* the drag object as the constructor sets it (currentY and endY are written
\* but never read, and are left out)
NoDrag ==
  [isDragging |-> FALSE, startY |-> 0, delta |-> 0, direction |-> "none",
   isHeader |-> FALSE, isOverlay |-> FALSE, isAtTop |-> FALSE]

NoSession == [zone |-> "none", scrollTop |-> 0]

\* What is recorded of a handler: its name, the key or property of its event,
\* and for a touch handler whether it found the session active and, at the end
\* of a session, the delta it found.
BSOp(name, arg, active, delta) ==
  [name |-> name, arg |-> arg, active |-> active, delta |-> delta]

\* ------------------------------------------------------------------------
\* BottomSheet: helpers
\* ------------------------------------------------------------------------

\* Math.sqrt on a non-negative integer, rounded down
RECURSIVE SqrtFrom(_, _)
SqrtFrom(n, r) ==
  LET next == (r + n \div r) \div 2
  IN IF next >= r THEN r ELSE SqrtFrom(n, next)

Sqrt(n) == IF n = 0 THEN 0 ELSE SqrtFrom(n, n)

Abs(x) == IF x < 0 THEN -x ELSE x

\* #applyResistance(value) that rounds the square root down to whole pixels
applyResistanceWholePixels(value) ==
  (Sqrt(value) * Scale * 10 * OverscrollResistanceTenths) \div 10

\* #applyResistance(value): Math.sqrt(value) * 10 * #overscrollResistance,
\* in thousandths of a pixel
applyResistance(value) ==
  (Sqrt(value * Scale * Scale) * 10 * OverscrollResistanceTenths) \div 10

\* The fields of the sheet as a record the helpers transform; the logs of the
\* step start empty.
BSFields ==
  [ariaHidden |-> ariaHidden, inert |-> inert,
   transitioning |-> transitioning, transform |-> transform,
   bodyLocked |-> bodyLocked, scrollPosition |-> scrollPosition,
   pageYOffset |-> pageYOffset, innerWidth |-> innerWidth,
   maxDisplayWidth |-> maxDisplayWidth, widthAttr |-> widthAttr,
   drag |-> drag,
   uiBound |-> uiBound, resizeBound |-> resizeBound,
   connected |-> connected, inThrottle |-> inThrottle,
   roles |-> roles,
   calls |-> <<>>, emitted |-> <<>>, dragSeen |-> <<>>,
   defaultPrevented |-> FALSE, propagationStopped |-> FALSE, threw |-> FALSE]

\* toggleBodyScroll(disable).  A body with position: fixed cannot be
\* scrolled, so window.pageYOffset reads 0 while the lock is on.
toggleBodyScroll(b, disable) ==
  IF disable
  THEN [b EXCEPT !.calls = Append(@, "toggleBodyScroll(true)"),
                 !.scrollPosition = b.pageYOffset,
                 !.bodyLocked = TRUE,
                 !.pageYOffset = 0]
  ELSE [b EXCEPT !.calls = Append(@, "toggleBodyScroll(false)"),
                 !.bodyLocked = FALSE,
                 !.pageYOffset = b.scrollPosition,
                 !.scrollPosition = 0]

\* The reflection between the max-display-width attribute and the
\* maxDisplayWidth property.  Every write of the attribute runs
\* attributeChangedCallback before it returns; left counts the nested calls
\* that are still followed.
RECURSIVE attributeChangedCallback(_, _, _, _)
RECURSIVE setMaxDisplayWidth(_, _, _)

\* setAttribute('max-display-width', value)
setAttribute(b, value, left) ==
  attributeChangedCallback([b EXCEPT !.widthAttr = value], b.widthAttr, value,
                           left)

\* removeAttribute('max-display-width'): nothing happens if it is absent
removeAttribute(b, left) ==
  IF b.widthAttr = Null THEN b
  ELSE attributeChangedCallback([b EXCEPT !.widthAttr = Null], b.widthAttr,
                                Null, left)

\* set maxDisplayWidth(value)
setMaxDisplayWidth(b, value, left) ==
  LET b1 == [b EXCEPT !.maxDisplayWidth = value] IN
  IF value = Infinity THEN removeAttribute(b1, left)
  ELSE setAttribute(b1, NumberToString(value), left)

\* attributeChangedCallback(name, oldValue, newValue) for max-display-width
attributeChangedCallback(b, oldValue, newValue, left) ==
  IF left = 0 THEN [b EXCEPT !.calls = Append(@, "unfinished")]
  ELSE IF oldValue = newValue THEN b
  ELSE IF newValue = Null \/ newValue = "none"
  THEN setMaxDisplayWidth(b, Infinity, left - 1)
  ELSE LET parsed == parseInt(newValue) IN
       setMaxDisplayWidth(b, IF ~parsed.isNaN THEN parsed.n ELSE Infinity,
                          left - 1)

\* show() of BottomSheet without the test of the viewport width
BottomSheet_showAnyWidth(b) ==
  LET b0 == [b EXCEPT !.calls = Append(@, "show"),
                      !.dragSeen = Append(@, b.drag)]
      b1 == [b0 EXCEPT !.ariaHidden = FALSE, !.inert = FALSE,
                       !.transitioning = TRUE, !.transform = NoTransform]
      b2 == toggleBodyScroll(b1, TRUE)
  IN [b2 EXCEPT !.emitted = Append(@, "bottomsheet:open")]

\* show() of BottomSheet
BottomSheet_show(b) ==
  LET b0 == [b EXCEPT !.calls = Append(@, "show"),
                      !.dragSeen = Append(@, b.drag)] IN
  IF b0.innerWidth > b0.maxDisplayWidth THEN b0
  ELSE
    LET b1 == [b0 EXCEPT !.ariaHidden = FALSE, !.inert = FALSE,
                         !.transitioning = TRUE, !.transform = NoTransform]
        b2 == toggleBodyScroll(b1, TRUE)
    IN [b2 EXCEPT !.emitted = Append(@, "bottomsheet:open")]

\* hide() of BottomSheet
BottomSheet_hide(b) ==
  LET b0 == [b EXCEPT !.calls = Append(@, "hide"),
                      !.dragSeen = Append(@, b.drag)]
      b1 == [b0 EXCEPT !.ariaHidden = TRUE, !.inert = TRUE,
                       !.transitioning = TRUE, !.transform = NoTransform]
      b2 == toggleBodyScroll(b1, FALSE)
  IN [b2 EXCEPT !.emitted = Append(@, "bottomsheet:close")]

\* panelDragStart(e) that takes only a touch at the top of the content
panelDragStartOnlyAtTop(b, zone, scrollTop, y) ==
  LET isAtTop == "content" \in b.roles /\ scrollTop = 0
      d1 == [b.drag EXCEPT !.startY = y, !.direction = "none", !.delta = 0,
                           !.isHeader = (zone = "header"),
                           !.isOverlay = (zone = "overlay"),
                           !.isAtTop = isAtTop]
      d2 == IF isAtTop THEN [d1 EXCEPT !.isDragging = TRUE] ELSE d1
  IN [b EXCEPT !.drag = d2, !.transitioning = FALSE]

\* panelDragStart(e), part_001: zone is the element the touch landed in,
\* scrollTop is panelContent.scrollTop, y is e.targetTouches[0].screenY;
\* _.panelContent?.scrollTop is undefined without a content element
panelDragStart(b, zone, scrollTop, y) ==
  LET isHeader == zone = "header"
      isOverlay == zone = "overlay"
      isAtTop == "content" \in b.roles /\ scrollTop = 0
      d1 == [b.drag EXCEPT !.startY = y, !.direction = "none", !.delta = 0,
                           !.isHeader = isHeader, !.isOverlay = isOverlay,
                           !.isAtTop = isAtTop]
      d2 == IF isHeader \/ isOverlay \/ isAtTop
            THEN [d1 EXCEPT !.isDragging = TRUE] ELSE d1
  IN [b EXCEPT !.drag = d2, !.transitioning = FALSE]

\* panelDragStart(e), dist/bottom-sheet.js: _.panelContent.scrollTop raises a
\* TypeError when there is no content element, before isDragging is set
panelDragStart_dist(b, zone, scrollTop, y) ==
  LET d1 == [b.drag EXCEPT !.startY = y, !.direction = "none", !.delta = 0]
      d2 == IF scrollTop = 0 \/ zone = "header" \/ zone = "overlay"
            THEN [d1 EXCEPT !.isDragging = TRUE] ELSE d1
  IN IF "content" \notin b.roles
     THEN [b EXCEPT !.drag = d1, !.transitioning = FALSE, !.threw = TRUE]
     ELSE [b EXCEPT !.drag = d2, !.transitioning = FALSE]

\* The direction of a handler that evaluates it at every move event
DirectionAfterEveryMove(d, delta) ==
  IF delta < 0 THEN "up" ELSE "down"

\* The direction a move event leaves in drag.direction.
DirectionAfter(d, delta) ==
  IF d.direction = "none"
  THEN (IF delta < 0 THEN "up" ELSE "down")
  ELSE d.direction

\* if (e.cancelable) e.preventDefault(); e.stopPropagation();
Intercept(b, cancelable) ==
  [b EXCEPT !.defaultPrevented = cancelable, !.propagationStopped = TRUE]

\* panelDragMove(e), part_001
panelDragMove(b, y, cancelable) ==
  IF ~b.drag.isDragging THEN b
  ELSE
    LET delta == y - b.drag.startY
        dir == DirectionAfter(b.drag, delta)
        b1 == [b EXCEPT !.drag.delta = delta, !.drag.direction = dir]
    IN IF ~b1.drag.isHeader /\ ~b1.drag.isOverlay
          /\ (~b1.drag.isAtTop \/ dir = "up")
       THEN b1
       ELSE
         LET b2 == Intercept(b1, cancelable) IN
         IF delta < 0
         THEN [b2 EXCEPT !.transform = Translate(-applyResistance(Abs(delta)))]
         ELSE IF delta > 0
         THEN [b2 EXCEPT !.transform = Translate(delta * Scale)]
         ELSE b2

\* panelDragMove(e) that applies the resistance to downward moves as well
panelDragMove_distResisted(b, y, cancelable) ==
  IF ~b.drag.isDragging THEN b
  ELSE
    LET delta == y - b.drag.startY
        dir == DirectionAfter(b.drag, delta)
        b1 == [b EXCEPT !.drag.delta = delta, !.drag.direction = dir]
    IN IF delta < 0
       THEN [Intercept(b1, cancelable)
               EXCEPT !.transform = Translate(-applyResistance(Abs(delta)))]
       ELSE IF delta > 0
       THEN [Intercept(b1, cancelable)
               EXCEPT !.transform = Translate(applyResistance(delta))]
       ELSE b1

\* panelDragMove(e), dist/bottom-sheet.js
panelDragMove_dist(b, y, cancelable) ==
  IF ~b.drag.isDragging THEN b
  ELSE
    LET delta == y - b.drag.startY
        dir == DirectionAfter(b.drag, delta)
        b1 == [b EXCEPT !.drag.delta = delta, !.drag.direction = dir]
    IN IF delta < 0
       THEN [Intercept(b1, cancelable)
               EXCEPT !.transform = Translate(-applyResistance(Abs(delta)))]
       ELSE IF delta > 0
       THEN [Intercept(b1, cancelable)
               EXCEPT !.transform = Translate(delta * Scale)]
       ELSE b1

\* #applyResistance(value, resistanceFactor) of the staged build:
\* Math.sqrt(value) * 10 * resistanceFactor, in thousandths of a pixel
applyResistance_staged(value, tenths) ==
  (Sqrt(value * Scale * Scale) * 10 * tenths) \div 10

\* panelDragStart(e) of the staged build
panelDragStart_staged(b, zone, scrollTop, y) ==
  LET d1 == [b.drag EXCEPT !.startY = y, !.direction = "none", !.delta = 0]
      d2 == IF scrollTop = 0 \/ zone = "header" \/ zone = "overlay"
            THEN [d1 EXCEPT !.isDragging = TRUE] ELSE d1
  IN IF "content" \notin b.roles
     THEN [b EXCEPT !.drag = d1, !.transitioning = FALSE, !.threw = TRUE]
     ELSE [b EXCEPT !.drag = d2, !.transitioning = FALSE]

\* panelDragMove(e) of the staged build: a session whose first move goes up
\* is given up; direction is a flag that is set once a move went down.
panelDragMove_staged(b, y, cancelable) ==
  IF ~b.drag.isDragging THEN b
  ELSE
    LET delta == y - b.drag.startY
        b1 == [b EXCEPT !.drag.delta = delta]
    IN IF b1.drag.direction = "none" /\ delta < 0
       THEN [b1 EXCEPT !.drag.isDragging = FALSE]
       ELSE
         LET b2 == [b1 EXCEPT !.drag.direction = "down"] IN
         IF delta < 0
         THEN [b2 EXCEPT !.transform =
                 Translate(-applyResistance_staged(Abs(delta),
                                                   StagedUpTenths))]
         ELSE IF delta > 0
         THEN [Intercept(b2, cancelable) EXCEPT !.transform =
                 Translate(IF delta <= StagedThreshold
                           THEN delta * Scale
                           ELSE StagedThreshold * Scale
                                  + applyResistance_staged(
                                      delta - StagedThreshold,
                                      StagedDownTenths))]
         ELSE b2

\* panelDragEnd(e) of the staged build
panelDragEnd_staged(b) ==
  IF ~b.drag.isDragging THEN b
  ELSE
    LET b1 == [b EXCEPT !.drag.isDragging = FALSE, !.drag.delta = 0]
    IN IF b.drag.delta > StagedThreshold
       THEN BottomSheet_hide(b1)
       ELSE BottomSheet_show(b1)

\* drag.delta = 0; drag.direction = null;
ResetDrag(b) == [b EXCEPT !.drag.delta = 0, !.drag.direction = "none"]

\* panelDragEnd(e) that dismisses from the threshold on
panelDragEndInclusive(b) ==
  IF ~b.drag.isDragging THEN b
  ELSE
    LET b1 == [b EXCEPT !.drag.isDragging = FALSE, !.transitioning = TRUE]
    IN IF b1.drag.delta < 0 THEN BottomSheet_show(ResetDrag(b1))
       ELSE IF b1.drag.delta >= DragThreshold
       THEN BottomSheet_hide(ResetDrag(b1))
       ELSE BottomSheet_show(ResetDrag(b1))

\* panelDragEnd(e) that resets delta and direction after show() or hide()
panelDragEndResetsLate(b) ==
  IF ~b.drag.isDragging THEN b
  ELSE
    LET b1 == [b EXCEPT !.drag.isDragging = FALSE, !.transitioning = TRUE]
    IN IF b1.drag.delta < 0 THEN ResetDrag(BottomSheet_show(b1))
       ELSE IF b1.drag.delta > DragThreshold
       THEN ResetDrag(BottomSheet_hide(b1))
       ELSE ResetDrag(BottomSheet_show(b1))

\* panelDragEnd(e), the same in both builds; bound to touchend and touchcancel
panelDragEnd(b) ==
  IF ~b.drag.isDragging THEN b
  ELSE
    LET b1 == [b EXCEPT !.drag.isDragging = FALSE, !.transitioning = TRUE]
    IN IF b1.drag.delta < 0 THEN BottomSheet_show(ResetDrag(b1))
       ELSE IF b1.drag.delta > DragThreshold
       THEN BottomSheet_hide(ResetDrag(b1))
       ELSE BottomSheet_show(ResetDrag(b1))

\* handleTransitionEnd(e)
handleTransitionEnd(b, propertyName) ==
  IF propertyName = "transform" THEN [b EXCEPT !.transitioning = FALSE] ELSE b

\* the function handed to throttle(): hide when the viewport is too wide
checkWidth(b) ==
  IF b.innerWidth > b.maxDisplayWidth THEN BottomSheet_hide(b) ELSE b

\* throttle(func, limit) whose returned function calls func every time
throttledEveryCall(b) ==
  [checkWidth([b EXCEPT !.calls = Append(@, "func")])
     EXCEPT !.inThrottle = TRUE]

\* throttle(func, limit): the returned function; func is the width check
throttled(b) ==
  IF ~b.inThrottle
  THEN [checkWidth([b EXCEPT !.calls = Append(@, "func")])
          EXCEPT !.inThrottle = TRUE]
  ELSE b

\* The step of a handler of the sheet.
BSCommit(b, op) ==
  /\ ariaHidden' = b.ariaHidden
  /\ inert' = b.inert
  /\ transitioning' = b.transitioning
  /\ transform' = b.transform
  /\ bodyLocked' = b.bodyLocked
  /\ scrollPosition' = b.scrollPosition
  /\ pageYOffset' = b.pageYOffset
  /\ innerWidth' = b.innerWidth
  /\ maxDisplayWidth' = b.maxDisplayWidth
  /\ widthAttr' = b.widthAttr
  /\ drag' = b.drag
  /\ uiBound' = b.uiBound
  /\ resizeBound' = b.resizeBound
  /\ connected' = b.connected
  /\ inThrottle' = b.inThrottle
  /\ bsCalls' = b.calls
  /\ bsEmitted' = b.emitted
  /\ bsDragSeen' = b.dragSeen
  /\ defaultPrevented' = b.defaultPrevented
  /\ propagationStopped' = b.propagationStopped
  /\ bsThrew' = b.threw
  /\ bsOp' = op
  /\ UNCHANGED <<variant, roles>>
  /\ UNCHANGED dpVars

\* ------------------------------------------------------------------------
\* BottomSheet: actions
\* ------------------------------------------------------------------------

\* Host code calls show().
SheetShow ==
  /\ BSCommit(BottomSheet_show(BSFields), BSOp("show", Null, FALSE, 0))
  /\ UNCHANGED <<touches, session>>

\* Host code calls hide().
SheetHide ==
  /\ BSCommit(BottomSheet_hide(BSFields), BSOp("hide", Null, FALSE, 0))
  /\ UNCHANGED <<touches, session>>

\* A finger lands on the header, the overlay or the content.  User input
\* does not reach an inert element, and the listeners exist only on an
\* attached sheet.
TouchStart(zone, scrollTop, y) ==
  /\ connected /\ uiBound /\ ~inert
  /\ zone \in roles
  /\ touches < MaxTouches
  /\ touches' = touches + 1
  /\ session' = [zone |-> zone, scrollTop |-> scrollTop]
  /\ BSCommit(IF variant = "zoned"
              THEN panelDragStart(BSFields, zone, scrollTop, y)
              ELSE panelDragStart_dist(BSFields, zone, scrollTop, y),
              BSOp("touchstart", Null, drag.isDragging, 0))

\* A finger that is down moves.
TouchMove(y, cancelable) ==
  /\ connected /\ uiBound
  /\ touches > 0
  /\ BSCommit(IF variant = "zoned"
              THEN panelDragMove(BSFields, y, cancelable)
              ELSE panelDragMove_dist(BSFields, y, cancelable),
              BSOp("touchmove", Null, drag.isDragging, 0))
  /\ UNCHANGED <<touches, session>>

\* The end of a touch with panelDragEnd bound to touchend only
TouchEndCancelUnbound(name) ==
  /\ connected /\ uiBound
  /\ touches > 0
  /\ touches' = touches - 1
  /\ BSCommit(IF name = "touchend" THEN panelDragEnd(BSFields) ELSE BSFields,
              BSOp(name, Null, drag.isDragging, drag.delta))
  /\ UNCHANGED session

\* A finger is lifted (touchend) or the touch is canceled (touchcancel).
TouchEnd(name) ==
  /\ connected /\ uiBound
  /\ touches > 0
  /\ touches' = touches - 1
  /\ BSCommit(panelDragEnd(BSFields),
              BSOp(name, Null, drag.isDragging, drag.delta))
  /\ UNCHANGED session

\* The touch handlers of the staged build.
StagedTouchStart(zone, scrollTop, y) ==
  /\ variant = "staged"
  /\ connected /\ uiBound /\ ~inert
  /\ zone \in roles
  /\ touches < MaxTouches
  /\ touches' = touches + 1
  /\ session' = [zone |-> zone, scrollTop |-> scrollTop]
  /\ BSCommit(panelDragStart_staged(BSFields, zone, scrollTop, y),
              BSOp("touchstart", Null, drag.isDragging, 0))

StagedTouchMove(y, cancelable) ==
  /\ variant = "staged"
  /\ connected /\ uiBound
  /\ touches > 0
  /\ BSCommit(panelDragMove_staged(BSFields, y, cancelable),
              BSOp("touchmove", Null, drag.isDragging, 0))
  /\ UNCHANGED <<touches, session>>

StagedTouchEnd(name) ==
  /\ variant = "staged"
  /\ connected /\ uiBound
  /\ touches > 0
  /\ touches' = touches - 1
  /\ BSCommit(panelDragEnd_staged(BSFields),
              BSOp(name, Null, drag.isDragging, drag.delta))
  /\ UNCHANGED session

\* A transitionend event reaches the panel.
SheetTransitionEnd(target, propertyName) ==
  /\ uiBound
  /\ BSCommit(handleTransitionEnd(BSFields, propertyName),
              BSOp("transitionend", <<target, propertyName>>, FALSE, 0))
  /\ UNCHANGED <<touches, session>>

\* A click on the overlay: the handler is hide itself.
OverlayClick ==
  /\ connected /\ uiBound /\ ~inert
  /\ BSCommit(BottomSheet_hide(BSFields),
              BSOp("overlayClick", Null, FALSE, 0))
  /\ UNCHANGED <<touches, session>>

\* part_001 only: a click on an element with data-action-hide-bottom-sheet.
ActionClick ==
  /\ variant = "zoned"
  /\ connected /\ uiBound /\ ~inert
  /\ BSCommit(BottomSheet_hide(BSFields),
              BSOp("actionClick", Null, FALSE, 0))
  /\ UNCHANGED <<touches, session>>

\* #handleKeyDown without the test of aria-hidden
KeyDownAnyState(key) ==
  /\ uiBound
  /\ BSCommit(IF key = "Escape"
              THEN [BottomSheet_hide(BSFields) EXCEPT !.defaultPrevented = TRUE]
              ELSE BSFields,
              BSOp("keydown", key, FALSE, 0))
  /\ UNCHANGED <<touches, session>>

\* #handleKeyDown: a keydown on the document
KeyDown(key) ==
  /\ uiBound
  /\ BSCommit(IF key = "Escape" /\ ~ariaHidden
              THEN [BottomSheet_hide(BSFields) EXCEPT !.defaultPrevented = TRUE]
              ELSE BSFields,
              BSOp("keydown", key, FALSE, 0))
  /\ UNCHANGED <<touches, session>>

\* Host code writes the max-display-width attribute.
SetAttribute(value) ==
  /\ BSCommit(setAttribute(BSFields, value, MaxReflections),
              BSOp("setAttribute", value, FALSE, 0))
  /\ UNCHANGED <<touches, session>>

\* Host code removes the max-display-width attribute.
RemoveAttribute ==
  /\ BSCommit(removeAttribute(BSFields, MaxReflections),
              BSOp("removeAttribute", Null, FALSE, 0))
  /\ UNCHANGED <<touches, session>>

\* The window is resized to width w; the throttled handler runs if it is
\* registered.
Resize(w) ==
  /\ BSCommit(IF resizeBound
              THEN throttled([BSFields EXCEPT !.innerWidth = w])
              ELSE [BSFields EXCEPT !.innerWidth = w],
              BSOp("resize", Null, FALSE, 0))
  /\ UNCHANGED <<touches, session>>

\* setTimeout(() => (inThrottle = false), limit) of throttle fires.
ThrottleTimeout ==
  /\ inThrottle
  /\ BSCommit([BSFields EXCEPT !.inThrottle = FALSE],
              BSOp("throttleTimeout", Null, FALSE, 0))
  /\ UNCHANGED <<touches, session>>

\* The fields of a sheet whose constructor has run: hidden, inert, nothing
\* dragged; dist/bottom-sheet.js has bound its listeners, part_001 has not.
Constructed(v, maxWidth, width, offset) ==
  [ariaHidden |-> TRUE, inert |-> TRUE,
   transitioning |-> FALSE, transform |-> NoTransform,
   bodyLocked |-> FALSE, scrollPosition |-> 0,
   pageYOffset |-> offset, innerWidth |-> width,
   maxDisplayWidth |-> maxWidth,
   widthAttr |-> IF maxWidth = Infinity THEN Null ELSE NumberToString(maxWidth),
   drag |-> NoDrag,
   uiBound |-> (v # "zoned"), resizeBound |-> FALSE,
   connected |-> FALSE, inThrottle |-> FALSE,
   roles |-> Zones,
   calls |-> <<>>, emitted |-> <<>>, dragSeen |-> <<>>,
   defaultPrevented |-> FALSE, propagationStopped |-> FALSE, threw |-> FALSE]

\* connectedCallback(): part_001 binds every listener here, dist only the
\* resize listener; then the initial width check.
connectedCallback(b, v) ==
  checkWidth([b EXCEPT !.connected = TRUE, !.resizeBound = TRUE,
                       !.uiBound = IF v = "zoned" THEN TRUE ELSE @])

\* disconnectedCallback(): every listener is removed
disconnectedCallback(b) ==
  [b EXCEPT !.connected = FALSE, !.resizeBound = FALSE, !.uiBound = FALSE]

\* <bottom-sheet> is removed from the document.  Fingers that are down stay
\* down.
SheetDisconnected ==
  /\ connected
  /\ BSCommit(disconnectedCallback(BSFields),
              BSOp("disconnectedCallback", Null, FALSE, 0))
  /\ UNCHANGED <<touches, session>>

\* <bottom-sheet> is inserted into the document again.
SheetConnected ==
  /\ ~connected
  /\ BSCommit(connectedCallback(BSFields, variant),
              BSOp("connectedCallback", Null, FALSE, 0))
  /\ UNCHANGED <<touches, session>>

\* The variables hold the fields b, and op ran last.
BSHolds(b, op) ==
  /\ ariaHidden = b.ariaHidden
  /\ inert = b.inert
  /\ transitioning = b.transitioning
  /\ transform = b.transform
  /\ bodyLocked = b.bodyLocked
  /\ scrollPosition = b.scrollPosition
  /\ pageYOffset = b.pageYOffset
  /\ innerWidth = b.innerWidth
  /\ maxDisplayWidth = b.maxDisplayWidth
  /\ widthAttr = b.widthAttr
  /\ drag = b.drag
  /\ uiBound = b.uiBound
  /\ resizeBound = b.resizeBound
  /\ connected = b.connected
  /\ inThrottle = b.inThrottle
  /\ bsCalls = b.calls
  /\ bsEmitted = b.emitted
  /\ bsDragSeen = b.dragSeen
  /\ defaultPrevented = b.defaultPrevented
  /\ propagationStopped = b.propagationStopped
  /\ bsThrew = b.threw
  /\ roles = b.roles
  /\ bsOp = op
  /\ touches = 0
  /\ session = NoSession

\* A sheet of either build that was created in the document: its constructor
\* and its connectedCallback have run.
InitBS ==
  \E v \in Variants, m \in MaxDisplayWidths, w \in Widths, o \in PageOffsets :
    /\ variant = v
    /\ BSHolds(connectedCallback(Constructed(v, m, w, o), v),
               BSOp("connectedCallback", Null, FALSE, 0))

\* One constructed sheet that is never attached, for the runs that are about
\* the dialog panel.
IdleBS ==
  /\ variant = "zoned"
  /\ BSHolds(Constructed("zoned", Infinity, 500, 0),
             BSOp("constructor", Null, FALSE, 0))

NextBS ==
  \/ SheetShow
  \/ SheetHide
  \/ \E z \in Zones, st \in ScrollTops, y \in StartYs : TouchStart(z, st, y)
  \/ \E y \in MoveYs, c \in BOOLEAN : TouchMove(y, c)
  \/ \E n \in {"touchend", "touchcancel"} : TouchEnd(n)
  \/ \E x \in {"panel", "child"}, q \in TransitionProps :
       SheetTransitionEnd(x, q)
  \/ OverlayClick
  \/ ActionClick
  \/ \E k \in Keys : KeyDown(k)
  \/ \E w \in Widths : Resize(w)
  \/ ThrottleTimeout

\* ------------------------------------------------------------------------
\* Specifications
\* ------------------------------------------------------------------------

Init == InitDP /\ IdleBS

\* The attached <dialog-panel> with its inner <dialog>.
SpecDP == Init /\ [][NextDP]_vars

\* The same, with the scheduling the browser guarantees: a requested
\* animation frame is delivered and a timer that was set fires.  Nothing
\* obliges a transitionend event to be delivered.
FairSpecDP ==
  SpecDP /\ WF_vars(AnimationFrame) /\ WF_vars(TimerFire)

\* <dialog-panel> with any markup, attached and detached at any time.
InitAttach == InitDPAnyMarkup /\ IdleBS

SpecDPAttach == InitAttach /\ [][NextDPAttach]_vars

\* The panel with a host that may register a listener of the hidden
\* notification that calls show() again.
NextDPReentrant ==
  \/ NextDP
  \/ \E t \in ShowTriggers : AddHiddenListener(t)

SpecDPReentrant == Init /\ [][NextDPReentrant]_vars

InitSheet == InitDP /\ InitBS

\* The standalone <bottom-sheet>, in either build.
SpecBS == InitSheet /\ [][NextBS]_vars

\* The sheet with its removal from and insertion into the document, under
\* host calls, resizes, Escape, overlay clicks and drags from the top.
NextBSAttach ==
  \/ SheetShow
  \/ SheetHide
  \/ \E z \in Zones : TouchStart(z, 0, 500)
  \/ \E y \in {560, 601} : TouchMove(y, TRUE)
  \/ TouchEnd("touchend")
  \/ OverlayClick
  \/ KeyDown("Escape")
  \/ \E w \in Widths : Resize(w)
  \/ ThrottleTimeout
  \/ SheetDisconnected
  \/ SheetConnected

SpecBSAttach == InitSheet /\ [][NextBSAttach]_vars

\* A sheet of the staged build that was created in the document.
InitStaged ==
  /\ InitDP
  /\ variant = "staged"
  /\ BSHolds(connectedCallback(Constructed("staged", Infinity, 500, 0),
                               "staged"),
             BSOp("connectedCallback", Null, FALSE, 0))

\* screenY of the moves of a finger that went down at 500 and is dragged down
\* by 0 to MaxDown pixels, or up by 10.
DownYs == {500 + d : d \in 0..MaxDown} \cup {490}

\* The staged build under one kind of gesture: the sheet is opened, a finger
\* goes down at screenY 500, is dragged and lifted.
NextStaged ==
  \/ SheetShow
  \/ \E z \in Zones, st \in ScrollTops : StagedTouchStart(z, st, 500)
  \/ \E y \in DownYs : StagedTouchMove(y, TRUE)
  \/ \E n \in {"touchend", "touchcancel"} : StagedTouchEnd(n)

SpecStaged == InitStaged /\ [][NextStaged]_vars

\* A sheet of either build whose markup has any of the header, the overlay
\* and the content, created in the document.
InitMarkup ==
  /\ InitDP
  /\ \E v \in Variants, rs \in SUBSET Zones :
       /\ variant = v
       /\ BSHolds(connectedCallback(
                    [Constructed(v, Infinity, 500, 0) EXCEPT !.roles = rs], v),
                  BSOp("connectedCallback", Null, FALSE, 0))

\* The sheet under host calls and touches on the elements it has.
NextMarkup ==
  \/ SheetShow
  \/ SheetHide
  \/ \E z \in Zones, st \in ScrollTops : TouchStart(z, st, 500)
  \/ \E y \in {400, 560, 601} : TouchMove(y, TRUE)
  \/ \E n \in {"touchend", "touchcancel"} : TouchEnd(n)

SpecMarkup == InitMarkup /\ [][NextMarkup]_vars

\* The sheet under host calls and window resizes only.
NextResize ==
  \/ SheetShow
  \/ SheetHide
  \/ \E w \in Widths : Resize(w)
  \/ ThrottleTimeout

\* A timer that was set fires: the throttle window closes after its 100 ms.
\* Nothing obliges the window to be resized again.
FairSpecResize ==
  InitSheet /\ [][NextResize]_vars /\ WF_vars(ThrottleTimeout)

\* The sheet under host calls and writes of its max-display-width attribute.
NextAttr ==
  \/ SheetShow
  \/ SheetHide
  \/ \E v \in AttrValues : SetAttribute(v)
  \/ RemoveAttribute

SpecAttr == InitSheet /\ [][NextAttr]_vars

\* screenY of the moves of a finger that went down at 500 and is dragged up
\* by 0 to MaxUp pixels.
UpYs == {500 - d : d \in 0..MaxUp}

\* The sheet under one kind of gesture: it is opened and fingers go down on
\* it at screenY 500, are dragged upwards and lifted.
NextDragUp ==
  \/ SheetShow
  \/ \E z \in Zones : TouchStart(z, 0, 500)
  \/ \E y \in UpYs : TouchMove(y, TRUE)
  \/ \E n \in {"touchend", "touchcancel"} : TouchEnd(n)

SpecDragUp == InitSheet /\ [][NextDragUp]_vars

\* ------------------------------------------------------------------------
\* DialogPanel: properties
\* ------------------------------------------------------------------------

LifecyclePaths ==
  {<<"hidden", "showing">>, <<"showing", "shown">>,
   <<"shown", "hiding">>, <<"hiding", "hidden">>}

EmittedNames == [i \in 1..Len(emitted) |-> emitted[i].name]

\* A closure of the given callback that has not run yet.
Pending(cb) == \E i \in 1..Len(waiters) :
                 waiters[i].cb = cb /\ ~waiters[i].called

\* C1: under every interleaving of show(), hide(), cancel, clicks, animation
\* frames, transitionend events and fallback timers, every change of the
\* lifecycle state is one of hidden->showing, showing->shown, shown->hiding,
\* hiding->hidden.
C1_LifecycleSteps ==
  [][state' # state => <<state, state'>> \in LifecyclePaths]_vars

\* A whole open/close cycle has run: all four changes have happened.
C1_Witness ==
  state = "hidden" /\ dpOp.name = "transitionend" /\ hiddenCount = 1
    /\ shownCount = 1

\* C2: every accepted hide() eventually closes the native dialog, reaches
\* 'hidden' and emits exactly one hidden notification, also when no
\* transitionend event is ever delivered, whenever hide() is called after the
\* show().
C2_AcceptedHideCompletes ==
  (state = "hiding") ~> (state = "hidden" /\ ~dialogOpen /\ hiddenCount = 1)

\* C3: an accepted show() takes the state to 'showing' and then to 'shown' and
\* emits exactly one shown notification, whether a transitionend event, the
\* fallback timer, or both arrive.
C3_ShowCompletesOnce ==
  /\ [][dpOp'.name = "show" /\ state = "hidden" /\ dpOp'.ret = "true"
          => state' = "showing" /\ shownCount' = 0]_vars
  /\ [](shownCount <= 1)
  /\ (state = "showing") ~> (state = "shown")
  /\ (state = "showing") ~> (shownCount = 1)

\* The fallback timer of a show fires after a transitionend event already
\* completed that show: nothing is emitted a second time.
C3_Witness ==
  dpOp.name = "timeout" /\ emitted = <<>> /\ shownCount = 1

\* C4: show() while 'showing' or 'shown' returns true and while 'hiding'
\* returns false; it changes neither the state nor the stored trigger
\* element, calls no showModal() and emits nothing.
C4_ShowNoOp ==
  [][dpOp'.name = "show" /\ state \in {"showing", "shown", "hiding"}
       => /\ dpOp'.ret = (IF state = "hiding" THEN "false" ELSE "true")
          /\ state' = state
          /\ triggerElement' = triggerElement
          /\ dialogOpen' = dialogOpen
          /\ native' = <<>>
          /\ emitted' = <<>>]_vars

\* show(el) was refused while hiding, with el not the stored trigger.
C4_Witness ==
  dpOp.name = "show" /\ dpOp.ret = "false" /\ state = "hiding"
    /\ dpOp.arg # triggerElement

\* C5: hide() while 'hiding' or 'hidden' returns true and while 'showing'
\* returns false; it changes neither the state nor the stored result, does
\* not close the dialog and emits nothing.
C5_HideNoOp ==
  [][dpOp'.name = "hide" /\ state \in {"hiding", "hidden", "showing"}
       => /\ dpOp'.ret = (IF state = "showing" THEN "false" ELSE "true")
          /\ state' = state
          /\ result' = result
          /\ dialogOpen' = dialogOpen
          /\ native' = <<>>
          /\ emitted' = <<>>]_vars

\* hide(btnClose) was refused while showing.
C5_Witness ==
  dpOp.name = "hide" /\ dpOp.ret = "false" /\ state = "showing"
    /\ dpOp.arg = "btnClose" /\ dialogOpen

\* C6: a canceled before-show makes show() return false with the state still
\* 'hidden', the dialog closed and nothing scheduled that could emit shown; a
\* canceled before-hide makes hide() return false with the state still
\* 'shown', the dialog open and nothing scheduled that could emit hidden.
C6_CanceledAborts ==
  /\ [][dpOp'.name = "show" /\ state = "hidden" /\ dpOp'.prevented
          => /\ dpOp'.ret = "false"
             /\ state' = "hidden"
             /\ ~dialogOpen'
             /\ native' = <<>>
             /\ EmittedNames' = <<"beforeShow">>
             /\ UNCHANGED <<pendingRAF, pendingTimeout, waiters, timers>>]_vars
  /\ [][dpOp'.name = "hide" /\ state = "shown" /\ dpOp'.prevented
          => /\ dpOp'.ret = "false"
             /\ state' = "shown"
             /\ dialogOpen'
             /\ native' = <<>>
             /\ EmittedNames' = <<"beforeHide">>
             /\ UNCHANGED <<pendingRAF, pendingTimeout, waiters, timers>>]_vars
  /\ [](state = "hidden" => pendingRAF = "none" /\ ~Pending("shown"))
  /\ [](state = "shown" => ~Pending("hidden"))

\* A canceled show(btnOpen) has returned.
C6_Witness ==
  dpOp.name = "show" /\ dpOp.prevented /\ dpOp.ret = "false"
    /\ state = "hidden" /\ dpOp.arg = "btnOpen"

NativeCalled(n) == \E i \in 1..Len(native) : native[i] = n

\* C14: on a <dialog-panel> without an inner <dialog>, show() and hide() raise
\* no exception, leave the lifecycle state 'hidden' and emit nothing, after
\* any sequence of calls.
C14_NoDialogNoOp ==
  /\ [](~dialog => state = "hidden")
  /\ [][~dialog /\ dpOp'.name \in {"show", "hide"}
          => dpOp'.ret # "throw" /\ state' = "hidden" /\ emitted' = <<>>]_vars

\* C15: as long as the panel has its inner <dialog>, the native dialog is
\* open exactly when the lifecycle state is 'showing', 'shown' or 'hiding',
\* through every show, hide, cancel, click, animation frame, transitionend,
\* timer, removal and insertion; showModal() is called only on the step from
\* 'hidden' to 'showing', close() only on the step from 'hiding' to 'hidden',
\* and a native cancel closes nothing.
C15_DialogOpenIffVisible ==
  /\ [](dialog => (dialogOpen <=> state \in {"showing", "shown", "hiding"}))
  /\ [][NativeCalled("showModal")'
          => state = "hidden" /\ state' = "showing"]_vars
  /\ [][NativeCalled("close")'
          => state = "hiding" /\ state' = "hidden"]_vars
  /\ [][dpOp'.name = "cancel" => dialogOpen' = dialogOpen]_vars

\* C16: a transitionend event completes a pending show or hide wait of
\* DialogPanel only if it reports the transform property and targets the
\* <dialog> itself, and removes the transitioning class of the BottomSheet
\* panel only if it reports the transform property and targets the panel
\* itself.
C16_OnlyOwnTransformHonored ==
  /\ [][dpOp'.name = "transitionend"
          /\ (emitted' # <<>> \/ native' # <<>> \/ state' # state)
          => dpOp'.arg = <<"dialog", "transform">>]_vars
  /\ [][bsOp'.name = "transitionend" /\ transitioning /\ ~transitioning'
          => bsOp'.arg = <<"panel", "transform">>]_vars

\* Number of focus() calls the handler that ran last made.
FocusCalls == Cardinality({i \in 1..Len(native) : native[i] = "focus"})

\* C17: the trigger element passed to the show() that opens the panel is
\* stored and kept until the hide completes; the completion of the hide
\* calls focus() once on the stored element if there is one, and not at all
\* otherwise, and leaves the stored trigger element empty; focus() is called
\* at no other step.
C17_FocusReturnsToOpener ==
  /\ [][dpOp'.name = "show" /\ state = "hidden" /\ dpOp'.ret = "true"
          => triggerElement' = dpOp'.arg]_vars
  /\ [][(state \in {"showing", "shown", "hiding"}) /\ state' # "hidden"
          => UNCHANGED triggerElement]_vars
  /\ [][state = "hiding" /\ state' = "hidden"
          => /\ FocusCalls' = (IF triggerElement # Null THEN 1 ELSE 0)
             /\ triggerElement' = Null]_vars
  /\ [][FocusCalls' > 0 => state = "hiding" /\ state' = "hidden"]_vars

\* A hide completed on a panel that show(btnOpen) had opened, and focus went
\* back to a trigger element.
C17_Witness ==
  state = "hidden" /\ hiddenCount = 1 /\ FocusCalls = 1
    /\ triggerElement = Null /\ dpOp.name = "timeout"

\* The hidden notifications the handler that ran last dispatched.
HiddenEvents == SelectSeq(emitted, LAMBDA e : e.name = "hidden")

\* The trigger element captured by the pending completion callback of hide().
PendingHideTriggers ==
  {waiters[i].trig : i \in {j \in 1..Len(waiters) :
                               waiters[j].cb = "hidden" /\ ~waiters[j].called}}

\* C18: a click on a descendant of an element carrying data-action-hide-dialog
\* calls hide() with that element; if the state is 'shown' and before-hide is
\* not canceled the state becomes 'hiding' and then eventually 'hidden', and
\* the hidden notification carries that element and its data-result.
C18_HideMarkerCloses ==
  /\ [][dpOp'.name = "click" /\ ClosestHideAction(dpOp'.arg) # Null
          /\ state = "shown" /\ ~dpOp'.prevented
          => /\ state' = "hiding"
             /\ result' = DatasetResult(ClosestHideAction(dpOp'.arg))
             /\ PendingHideTriggers' = {ClosestHideAction(dpOp'.arg)}]_vars
  /\ [][state = "hiding" /\ state' = "hidden"
          => /\ Len(HiddenEvents') = 1
             /\ {HiddenEvents'[1].triggerElement} = PendingHideTriggers
             /\ HiddenEvents'[1].result = result]_vars
  /\ (dpOp.name = "click" /\ EmittedNames = <<"beforeHide">>
        /\ state = "hiding")
       ~> (state = "hidden")

\* C19: whenever <dialog-panel> is removed from the document, whatever its
\* lifecycle state was, its lifecycle state is 'hidden' afterwards.
C19_DetachResetsState ==
  [][dpOp'.name = "disconnectedCallback" => state' = "hidden"]_vars

\* C26: every shown notification is dispatched while the lifecycle state is
\* 'shown' and carries that state, and every hidden notification is
\* dispatched while the state is 'hidden' and carries that state.
C26_PayloadState ==
  \A i \in 1..Len(emitted) :
    /\ emitted[i].name = "shown" => emitted[i].state = "shown"
    /\ emitted[i].name = "hidden" => emitted[i].state = "hidden"

\* ------------------------------------------------------------------------
\* BottomSheet: properties
\* ------------------------------------------------------------------------

EndNames == {"touchend", "touchcancel"}

\* The handler that ran last invoked the method m.
Invoked(m) == \E i \in 1..Len(bsCalls) : bsCalls[i] = m

Dispatched(n) == \E i \in 1..Len(bsEmitted) : bsEmitted[i] = n

\* C7: when an active drag session ends with terminal delta d, hide() is
\* invoked if and only if d > 100; for every d <= 100 the session takes the
\* snap-back branch and hide() is not invoked.
C7_DismissIffBeyondThreshold ==
  [][bsOp'.name \in EndNames /\ drag.isDragging
       => /\ Invoked("hide")' <=> drag.delta > 100
          /\ drag.delta <= 100 => Invoked("show")' /\ ~drag'.isDragging]_vars

\* A session ended with a delta of exactly 100 and did not dismiss.
C7_Witness ==
  bsOp.name \in EndNames /\ bsOp.active /\ bsOp.delta = 100
    /\ ~Invoked("hide") /\ Invoked("show")

\* C8: after a touch-start that arrives while no session is active, the
\* session is active if and only if the touch landed in the header, in the
\* overlay, or in the content with the content's scroll offset 0.
C8_EligibleIff ==
  [][bsOp'.name = "touchstart" /\ ~drag.isDragging
       => (drag'.isDragging <=>
             \/ session'.zone \in {"header", "overlay"}
             \/ session'.zone = "content" /\ session'.scrollTop = 0)]_vars

\* A touch on the header of a sheet whose content is scrolled opened a
\* session.
C8_Witness ==
  bsOp.name = "touchstart" /\ ~bsOp.active /\ session.zone = "header"
    /\ session.scrollTop # 0 /\ drag.isDragging

\* C9: for a session that starts in the content while the content's scroll
\* offset is non-zero, no touch-move and no touch-end writes the transform,
\* suppresses the default action or invokes show() or hide().
C9_ScrolledContentLeftAlone ==
  [][bsOp'.name \in {"touchmove"} \cup EndNames
       /\ session.zone = "content" /\ session.scrollTop # 0
       => /\ transform' = transform
          /\ ~defaultPrevented'
          /\ ~Invoked("show")'
          /\ ~Invoked("hide")']_vars

\* C10: a session that ends in snap-back (terminal delta <= 100) does not
\* change whether the sheet is open or hidden, does not enter the body
\* scroll lock again and dispatches no open notification.
C10_SnapBackOnlyRestores ==
  [][bsOp'.name \in EndNames /\ drag.isDragging /\ drag.delta <= 100
       => /\ ariaHidden' = ariaHidden
          /\ inert' = inert
          /\ ~Invoked("toggleBodyScroll(true)")'
          /\ bodyLocked' = bodyLocked
          /\ scrollPosition' = scrollPosition
          /\ ~Dispatched("bottomsheet:open")']_vars

\* C11: show() called while window.innerWidth exceeds maxDisplayWidth leaves
\* aria-hidden, inert, the transitioning class, the transform and the body
\* scroll lock as they are and dispatches no open notification; show() called
\* at any other width, and at every width when maxDisplayWidth is Infinity,
\* opens the sheet.
C11_WideShowRefused ==
  [][bsOp'.name = "show"
       => /\ innerWidth > maxDisplayWidth
               => /\ UNCHANGED <<ariaHidden, inert, transitioning, transform,
                                 bodyLocked, scrollPosition>>
                  /\ bsEmitted' = <<>>
          /\ innerWidth <= maxDisplayWidth \/ maxDisplayWidth = Infinity
               => /\ ~ariaHidden' /\ ~inert' /\ bodyLocked'
                  /\ Dispatched("bottomsheet:open")']_vars

\* show() was refused on a sheet that is open with its panel dragged away.
C11_Witness ==
  bsOp.name = "show" /\ innerWidth > maxDisplayWidth /\ bsEmitted = <<>>
    /\ ~ariaHidden /\ transform.set

\* C12: whenever the sheet is open and the viewport is wider than
\* max-display-width, either hide() is eventually invoked or the viewport
\* stops being too wide, whatever the timing of the resize events relative to
\* the throttle window.
C12_WideSheetIsHidden ==
  (~ariaHidden /\ innerWidth > maxDisplayWidth)
    ~> (Invoked("hide") \/ innerWidth <= maxDisplayWidth)

\* C13: show() on a sheet that is already open, and hide() on a sheet that is
\* already hidden (called directly or by the resize handler), change no
\* attribute, class, transform, body style or saved scroll position, do not
\* move the page and dispatch nothing.
C13_IdempotentShowHide ==
  [][(bsOp'.name = "show" /\ ~ariaHidden)
       \/ (bsOp'.name \in {"hide", "resize"} /\ Invoked("hide")'
             /\ ariaHidden)
     => /\ UNCHANGED <<ariaHidden, inert, transitioning, transform,
                       bodyLocked, scrollPosition, pageYOffset>>
        /\ bsEmitted' = <<>>]_vars

\* The handler that ran last was a touch-move that pulled the panel up and
\* wrote the resisted offset into the transform.
PulledUp ==
  bsOp.name = "touchmove" /\ drag.delta < 0 /\ propagationStopped
    /\ transform.set

\* C20: when two successive moves of a session pull the panel up by a and then
\* by b pixels with 0 < a < b, the offset written for a is strictly smaller
\* than the offset written for b, and the offset written for b is strictly
\* smaller than b.
C20_ResistanceSublinear ==
  [][PulledUp /\ PulledUp' /\ Abs(drag.delta) < Abs(drag'.delta)
       => /\ -transform.y < -transform'.y
          /\ -transform'.y < Abs(drag'.delta) * Scale]_vars

\* A move pulled the panel up by MaxUp pixels right after a move that pulled
\* it up by one pixel less.
C20_Witness ==
  PulledUp /\ drag.delta = -MaxUp
    /\ transform = Translate(-applyResistance(MaxUp))
    /\ -transform.y > applyResistance(MaxUp - 1)

C22_EscapeHidesOpenSheet ==
  [][bsOp'.name = "keydown" /\ bsOp'.arg = "Escape"
       => /\ Invoked("hide")' <=> ~ariaHidden
          /\ ariaHidden
               => /\ UNCHANGED <<ariaHidden, inert, transitioning, transform,
                                 bodyLocked, scrollPosition, pageYOffset,
                                 drag>>
                  /\ bsEmitted' = <<>>
                  /\ ~defaultPrevented']_vars

\* Escape closed an open sheet.
C22_Witness ==
  bsOp.name = "keydown" /\ bsOp.arg = "Escape" /\ Invoked("hide")
    /\ Dispatched("bottomsheet:close") /\ ariaHidden /\ ~bodyLocked

\* The strings that are decimal integers, and the integer each denotes.
DecimalIntegers == {"600", "1000000000000000000000"}

IntegerOf(str) == IF str = "600" THEN 600 ELSE Sextillion

\* C23: writing any value to the max-display-width attribute, or removing
\* it, finishes within MaxReflections nested callbacks and leaves
\* maxDisplayWidth equal to the integer the value denotes if it is a number,
\* and to Infinity if it is absent, 'none' or not a number.
C23_AttributeReflection ==
  /\ [][bsOp'.name \in {"setAttribute", "removeAttribute"}
          => ~Invoked("unfinished")']_vars
  /\ [][bsOp'.name = "removeAttribute" => maxDisplayWidth' = Infinity]_vars
  /\ [][bsOp'.name = "setAttribute"
          => maxDisplayWidth' = (IF bsOp'.arg \in DecimalIntegers
                                 THEN IntegerOf(bsOp'.arg) ELSE Infinity)]_vars

\* The touch-start that ran last landed where a drag may begin.
Eligible(ses) ==
  ses.zone \in {"header", "overlay"} \/ ses.scrollTop = 0

\* C24: after a touch-start that does not land in the header or the overlay
\* while the content is scrolled, the session is inactive with delta 0 and no
\* direction, whatever the previous session left behind.
C24_TouchStartResets ==
  [][bsOp'.name = "touchstart" /\ ~Eligible(session')
       => /\ ~drag'.isDragging
          /\ drag'.delta = 0
          /\ drag'.direction = "none"]_vars

\* C25: the end of an active session leaves no inline transform on the panel,
\* so that the panel carries an inline transform only while a session is
\* active.
C25_TransformClearedAtEnd ==
  /\ [][bsOp'.name \in EndNames /\ drag.isDragging => ~transform'.set]_vars
  /\ [](~drag.isDragging => ~transform.set)

\* C27: when the latest touch landed in the content and the direction of the
\* session is up, a move event neither calls preventDefault() or
\* stopPropagation() nor writes the transform, in either build.
C27_ContentUpNotIntercepted ==
  [][bsOp'.name = "touchmove" /\ session.zone = "content"
       /\ drag'.direction = "up"
       => /\ ~defaultPrevented'
          /\ ~propagationStopped'
          /\ UNCHANGED transform]_vars

\* C28: in the build that leaves upward moves in the content to the browser,
\* a session that began in the content, whose direction is up and that never
\* moved the panel does not invoke hide() when it ends.
C28_UnmovedPanelNotDismissed ==
  [][bsOp'.name \in EndNames /\ variant = "zoned" /\ touches = 1
       /\ session.zone = "content" /\ drag.direction = "up"
       /\ ~transform.set
       => ~Invoked("hide")']_vars

\* C29: a touch-start leaves the direction empty; a move event of an active
\* session sets an empty direction to down if its delta is >= 0 and to up
\* otherwise and leaves a set direction alone, whatever the sign of its
\* delta; no other handler than those of the touch events changes it.
C29_DirectionSetOnce ==
  /\ [][bsOp'.name = "touchstart" => drag'.direction = "none"]_vars
  /\ [][bsOp'.name = "touchmove" /\ drag.isDragging
          => drag'.direction =
               (IF drag.direction # "none" THEN drag.direction
                ELSE IF drag'.delta >= 0 THEN "down" ELSE "up")]_vars
  /\ [][drag'.direction # drag.direction
          => bsOp'.name \in {"touchstart", "touchmove"} \cup EndNames]_vars

\* A session whose direction is up has moved below its starting point.
C29_Witness ==
  bsOp.name = "touchmove" /\ drag.isDragging /\ drag.direction = "up"
    /\ drag.delta > 0

\* C30: the end event of an active session leaves the session inactive with
\* delta 0 and no direction, and the show() or hide() it calls already finds
\* the session that way; an end event of an inactive session changes nothing
\* and calls neither.
C30_ResetBeforeShowHide ==
  /\ [][bsOp'.name \in EndNames /\ drag.isDragging
          => /\ ~drag'.isDragging
             /\ drag'.delta = 0
             /\ drag'.direction = "none"
             /\ Len(bsDragSeen') = 1
             /\ bsDragSeen'[1] = drag']_vars
  /\ [][bsOp'.name \in EndNames /\ ~drag.isDragging
          => /\ UNCHANGED <<drag, transform, transitioning, ariaHidden, inert,
                            bodyLocked, scrollPosition, pageYOffset>>
             /\ bsCalls' = <<>>
             /\ bsEmitted' = <<>>]_vars

\* A session ended 60 pixels down and show() found it reset.
C30_Witness ==
  bsOp.name \in EndNames /\ bsOp.active /\ bsOp.delta = 60
    /\ Invoked("show") /\ Len(bsDragSeen) = 1 /\ bsDragSeen[1].delta = 0

\* C31: a touch-move event changes neither aria-hidden, inert nor the body
\* scroll lock, dispatches no notification and calls neither show() nor
\* hide(); of the sheet it changes only the drag object and the inline
\* transform, and the transform it writes for a downward delta is the delta
\* itself.
C31_MoveOnlyMovesPanel ==
  /\ [][bsOp'.name = "touchmove"
          => /\ UNCHANGED <<ariaHidden, inert, bodyLocked, scrollPosition,
                            pageYOffset, transitioning, innerWidth,
                            maxDisplayWidth, widthAttr>>
             /\ bsEmitted' = <<>>
             /\ bsCalls' = <<>>]_vars
  /\ [][bsOp'.name = "touchmove" /\ drag'.delta > 0
          /\ (propagationStopped' \/ transform' # transform)
          => transform' = Translate(drag'.delta * Scale)]_vars

\* A move dragged the panel of an open sheet 101 pixels down, beyond the
\* dismissal threshold, and the sheet is still open.
C31_Witness ==
  bsOp.name = "touchmove" /\ bsOp.active /\ drag.delta = 101
    /\ transform = Translate(101 * Scale) /\ ~ariaHidden /\ ~inert
    /\ bodyLocked /\ propagationStopped

\* C32: when the completion callback of a hide has run and a listener of its
\* hidden notification called show(el), the state is 'showing' and the
\* stored trigger element is el.
C32_ReentrantShowKeepsTrigger ==
  [][state = "hiding" /\ state' = "showing"
       => triggerElement' = onHidden.el]_vars

\* C33: an accepted show() leaves the state 'showing' with the native dialog
\* open and the first animation frame requested; the first frame callback
\* only requests the second and leaves the state alone; the state becomes
\* 'shown' in the second frame callback and in no other step; and a removal
\* from the document leaves no frame callback pending, so the state does not
\* become 'shown' after it.
C33_ShownInSecondFrame ==
  /\ [][dpOp'.name = "show" /\ state = "hidden" /\ dpOp'.ret = "true"
          => state' = "showing" /\ dialogOpen' /\ pendingRAF' = "first"]_vars
  /\ [][pendingRAF' = "first" /\ pendingRAF # "first"
          => dpOp'.name = "show" /\ dpOp'.ret = "true"]_vars
  /\ [][dpOp'.name = "raf" /\ dpOp'.arg = "first"
          => pendingRAF = "first" /\ pendingRAF' = "second"
             /\ state' = state /\ state' = "showing"]_vars
  /\ [][pendingRAF' = "second" /\ pendingRAF # "second"
          => dpOp'.name = "raf" /\ dpOp'.arg = "first"]_vars
  /\ [][state' = "shown" /\ state # "shown"
          => dpOp'.name = "raf" /\ dpOp'.arg = "second"
             /\ pendingRAF = "second" /\ state = "showing"
             /\ isConnected]_vars
  /\ [][dpOp'.name = "disconnectedCallback" => pendingRAF' = "none"]_vars
  /\ [](~isConnected => pendingRAF = "none")

\* The second frame callback after show(btnOpen) has set the state to
\* 'shown' and started the wait for the transition.
C33_Witness ==
  dpOp.name = "raf" /\ dpOp.arg = "second" /\ state = "shown"
    /\ dialogOpen /\ Pending("shown") /\ triggerElement = "btnOpen"
    /\ pendingRAF = "none"

\* C34: a resize notification runs the width check, synchronously, exactly
\* when no throttle window is open, and opens one; a notification inside a
\* window changes nothing of the sheet; the width check runs in no other
\* step, so a dropped notification is not replayed when the window closes;
\* and the timer that closes the window lets the next notification run the
\* check again.
C34_ThrottledResize ==
  /\ [][bsOp'.name = "resize"
          => /\ Invoked("func")' <=> ~inThrottle
             /\ inThrottle'
             /\ ~inThrottle /\ innerWidth' > maxDisplayWidth
                  => Invoked("hide")']_vars
  /\ [][bsOp'.name = "resize" /\ inThrottle
          => /\ UNCHANGED <<ariaHidden, inert, transitioning, transform,
                            bodyLocked, scrollPosition, pageYOffset, drag>>
             /\ bsCalls' = <<>>
             /\ bsEmitted' = <<>>]_vars
  /\ [][Invoked("func")' => bsOp'.name = "resize"]_vars
  /\ [][bsOp'.name = "throttleTimeout"
          => inThrottle /\ ~inThrottle' /\ bsCalls' = <<>>]_vars
  /\ [][inThrottle /\ ~inThrottle' => bsOp'.name = "throttleTimeout"]_vars

\* A resize notification that made the viewport too wide for the open sheet
\* arrived inside a throttle window and was dropped.
C34_Witness ==
  bsOp.name = "resize" /\ ~Invoked("func") /\ inThrottle
    /\ innerWidth > maxDisplayWidth /\ ~ariaHidden

\* C35: a touch-start on a panel that carries the class 'transitioning'
\* leaves the class on it, whether or not the touch opens a session; the
\* class is removed only by the transitionend event of the transform.
C35_TouchStartKeepsTransition ==
  [][bsOp'.name = "touchstart" /\ transitioning => transitioning']_vars

\* C36: the step that opens the sheet saves the page scroll position; no
\* step that leaves the sheet open, be it show() or the end of a drag that
\* snaps back, changes the saved position; the step that hides the sheet
\* scrolls the page to it; and hide() on a hidden sheet leaves the page
\* where it is.
C36_ScrollPositionRestored ==
  /\ [][ariaHidden /\ ~ariaHidden' => scrollPosition' = pageYOffset]_vars
  /\ [][~ariaHidden /\ ~ariaHidden'
          => scrollPosition' = scrollPosition]_vars
  /\ [][~ariaHidden /\ ariaHidden' => pageYOffset' = scrollPosition]_vars
  /\ [][ariaHidden /\ Invoked("hide")' => pageYOffset' = pageYOffset]_vars

\* C37: a sheet that is in the document has its touch, click, transitionend
\* and keydown listeners and its resize listener registered, and a sheet that
\* is not in the document has none of them registered, after every sequence
\* of removals and insertions.
C37_ListenersFollowAttachment ==
  /\ [](connected => uiBound /\ resizeBound)
  /\ [](~connected => ~uiBound /\ ~resizeBound)

\* The handler that ran last was a touch-move that dragged the panel down and
\* wrote the offset into the transform.
PulledDown ==
  bsOp.name = "touchmove" /\ drag.delta > 0 /\ propagationStopped
    /\ transform.set

\* C38: in the staged build the offset written for a downward delta d is d
\* for d <= 100 and 100 + sqrt(d - 100) * 10 * f for d > 100, with f the
\* factor of the upward formula; the offset never exceeds d, and of two
\* successive moves the one with the larger delta does not get the smaller
\* offset.
C38_StagedDownwardOffset ==
  /\ [][PulledDown'
          => /\ transform'.y =
                  (IF drag'.delta <= StagedThreshold
                   THEN drag'.delta * Scale
                   ELSE StagedThreshold * Scale
                          + applyResistance_staged(
                              drag'.delta - StagedThreshold, StagedUpTenths))
             /\ transform'.y <= drag'.delta * Scale]_vars
  /\ [][PulledDown /\ PulledDown' /\ drag.delta <= drag'.delta
          => transform.y <= transform'.y]_vars

\* C39: on a sheet whose markup lacks the header, the overlay or the content,
\* no handler of a touch event raises an error, and a touch-start on the
\* header or the overlay leaves the session active.
C39_MissingRolesTolerated ==
  /\ [][roles # Zones /\ bsOp'.name \in {"touchstart", "touchmove"} \cup EndNames
          => ~bsThrew']_vars
  /\ [][roles # Zones /\ bsOp'.name = "touchstart"
          /\ session'.zone \in {"header", "overlay"}
          => drag'.isDragging]_vars

\* C40: between the handlers, whenever the lifecycle state is 'hidden' the
\* stored trigger element is empty.
C40_NoTriggerWhileHidden ==
  state = "hidden" => triggerElement = Null

====
